---- MODULE Spec2Model ----
(***************************************************************************)
(* Model of doriath/rls, src/server/transport.rs (the LSP packet framer)   *)
(* and src/server/rpc.rs (the JSON-RPC server on top of a Transport).      *)
(*                                                                         *)
(* Bytes are integers 0..255.  Text is a sequence of bytes.                *)
(***************************************************************************)
EXTENDS Integers, Sequences, FiniteSets, TLC

VARIABLES
    input,      \* LspTransport.input: the whole byte stream behind the cursor
    inputEnd,   \* what input gives after its last byte: "Eof" or "Error"
    pos,        \* number of bytes of input already consumed
    sent,       \* packets handed to Transport::send_packet, oldest first
    handles,    \* one record per JsonResponseHandle returned so far
    last,       \* outcome of the most recent call (receive_packet / read_message)
    recvLog,    \* results of the receive_packet calls made by the last read_message
    returned,   \* the Messages read_message has returned, with their packets
    crashed     \* TRUE once a panic has unwound the thread

vars == <<input, inputEnd, pos, sent, handles, last, recvLog, returned, crashed>>

(***************************************************************************)
(* Byte strings                                                            *)
(***************************************************************************)

\* the printable ASCII characters of codes 32..95 and of codes 97..126
AsciiLow == " !\"#$%&'()*+,-./0123456789:;<=>?@ABCDEFGHIJKLMNOPQRSTUVWXYZ[\\]^_"
AsciiHigh == "abcdefghijklmnopqrstuvwxyz{|}~"

Ord(c) ==
    IF \E i \in 1..Len(AsciiLow) : SubSeq(AsciiLow, i, i) = c
    THEN 31 + (CHOOSE i \in 1..Len(AsciiLow) : SubSeq(AsciiLow, i, i) = c)
    ELSE 96 + (CHOOSE i \in 1..Len(AsciiHigh) : SubSeq(AsciiHigh, i, i) = c)

\* the bytes of a string literal of printable ASCII characters
B(str) == [i \in 1..Len(str) |-> Ord(SubSeq(str, i, i))]

CRLF == <<13, 10>>

\* the string literals of the program
\* the separator of LspHeader::parse_from_line
ColonSpace == B(": ")
MalformedPrefix == B("Malformed LSP header: '")
Apostrophe == B("'")
\* the error of BufRead::read_line on bytes that are not UTF-8
StreamNotUtf8 == B("stream did not contain valid UTF-8")
ContentLengthKey == B("Content-Length")
content_length == B("content-length")
InvalidNumberPrefix == B("Value of Content-Length header is invalid number: ")
HeaderMissing == B("Content-Length header is missing")
\* the error of Read::read_exact at the end of the stream
FailedToFill == B("failed to fill whole buffer")
NotUtf8Prefix == B("Content of a packet is not a valid utf8: ")
\* FromUtf8Error::description
Utf8Description == B("invalid utf-8 sequence")
\* ParseIntError::description, by kind
EmptyDescription == B("cannot parse integer from empty string")
InvalidDigitDescription == B("invalid digit found in string")
OverflowDescription == B("number too large to fit in target type")
\* the words of JSON
NullWord == B("null")
TrueWord == B("true")
FalseWord == B("false")
\* the keys of the JSON-RPC envelope
KeyCode == B("code")
KeyMessage == B("message")
InvalidRequestMessage == B("Invalid Request")
KeyParams == B("params")
KeyId == B("id")
KeyMethod == B("method")
KeyResult == B("result")
KeyError == B("error")
KeyJsonrpc == B("jsonrpc")
V2 == B("2.0")

RECURSIVE Concat(_)
Concat(ss) == IF ss = <<>> THEN <<>> ELSE Head(ss) \o Concat(Tail(ss))

\* pat occurs in s at index i
OccursAt(s, pat, i) == \A k \in 1..Len(pat) : s[i + k - 1] = pat[k]

\* first index >= from at which pat occurs in s, 0 when there is none
Find(s, pat, from) ==
    LET places == from..(Len(s) - Len(pat) + 1) IN
    IF \E i \in places : OccursAt(s, pat, i)
    THEN CHOOSE i \in places :
            /\ OccursAt(s, pat, i)
            /\ \A j \in from..(i - 1) : ~OccursAt(s, pat, j)
    ELSE 0

\* char::is_whitespace restricted to one-byte characters
IsWhitespace(b) == b \in {9, 10, 11, 12, 13, 32}

\* str::trim
RECURSIVE trim(_)
trim(s) ==
    IF s = <<>> THEN s
    ELSE IF IsWhitespace(Head(s)) THEN trim(Tail(s))
    ELSE IF IsWhitespace(s[Len(s)]) THEN trim(SubSeq(s, 1, Len(s) - 1))
    ELSE s

\* the key compared as it was written
to_lowercase_skipped(s) == s

\* str::to_lowercase; only ASCII letters change (no multi-byte character
\* lowercases to a letter of "content-length")
to_lowercase(s) == [i \in 1..Len(s) |-> IF s[i] \in 65..90 THEN s[i] + 32 ELSE s[i]]

(***************************************************************************)
(* UTF-8 validation (std::str::from_utf8)                                  *)
(***************************************************************************)

IsCont(s, i) == i <= Len(s) /\ s[i] \in 128..191

RECURSIVE ValidUtf8From(_, _)
ValidUtf8From(s, i) ==
    IF i > Len(s) THEN TRUE
    ELSE LET b == s[i] IN
         IF b < 128 THEN ValidUtf8From(s, i + 1)
         ELSE IF b \in 194..223
              THEN IsCont(s, i + 1) /\ ValidUtf8From(s, i + 2)
         ELSE IF b \in 224..239
              THEN /\ IsCont(s, i + 1) /\ IsCont(s, i + 2)
                   /\ (b = 224 => s[i + 1] >= 160)
                   /\ (b = 237 => s[i + 1] <= 159)
                   /\ ValidUtf8From(s, i + 3)
         ELSE IF b \in 240..244
              THEN /\ IsCont(s, i + 1) /\ IsCont(s, i + 2) /\ IsCont(s, i + 3)
                   /\ (b = 240 => s[i + 1] >= 144)
                   /\ (b = 244 => s[i + 1] <= 143)
                   /\ ValidUtf8From(s, i + 4)
         ELSE FALSE

from_utf8_ok(s) == (\A i \in 1..Len(s) : s[i] < 128) \/ ValidUtf8From(s, 1)

(***************************************************************************)
(* usize::from_str_radix(value, 10)                                        *)
(***************************************************************************)

IsDigit(b) == b \in 48..57

\* decimal digits of usize::MAX = 2^64 - 1
UsizeMaxDigits == B("18446744073709551615")

\* decimal digits of isize::MAX = 2^63 - 1, the largest capacity of a Vec
IsizeMaxDigits == B("9223372036854775807")

\* sizes above SizeCap are kept as SizeCap: no stream of the model is that long
SizeCap == 1000

RECURSIVE StripZeros(_)
StripZeros(ds) == IF ds # <<>> /\ Head(ds) = 48 THEN StripZeros(Tail(ds)) ELSE ds

\* lexicographic a > b for digit strings of equal length
RECURSIVE DigitsGreater(_, _)
DigitsGreater(a, b) ==
    IF a = <<>> THEN FALSE
    ELSE IF Head(a) # Head(b) THEN Head(a) > Head(b)
    ELSE DigitsGreater(Tail(a), Tail(b))

\* the number written as sig, without leading zeros, is above the number
\* written as max
Exceeds(sig, max) ==
    \/ Len(sig) > Len(max)
    \/ Len(sig) = Len(max) /\ DigitsGreater(sig, max)

Overflows(ds) == Exceeds(StripZeros(ds), UsizeMaxDigits)

RECURSIVE DigitsValue(_, _)
DigitsValue(ds, acc) ==
    IF ds = <<>> THEN acc
    ELSE LET n == acc * 10 + (Head(ds) - 48) IN
         DigitsValue(Tail(ds), IF n > SizeCap THEN SizeCap ELSE n)

\* Ok(size): size is the number up to SizeCap, and huge says that the number
\* is above isize::MAX
Parsed(digits) ==
    [ok |-> TRUE, size |-> DigitsValue(digits, 0),
     huge |-> Exceeds(StripZeros(digits), IsizeMaxDigits)]

\* a number that does not fit is taken as the largest one, text that is no
\* number as zero
from_str_radix_saturating(value) ==
    IF value # <<>> /\ \A i \in 1..Len(value) : IsDigit(value[i])
    THEN Parsed(IF Overflows(value) THEN UsizeMaxDigits ELSE value)
    ELSE Parsed(<<48>>)

from_str_radix(value) ==
    LET digits == IF value # <<>> /\ Head(value) = 43 THEN Tail(value) ELSE value IN
    IF value = <<>>
    THEN [ok |-> FALSE, description |-> EmptyDescription]
    ELSE IF digits = <<>>
    THEN [ok |-> FALSE, description |-> EmptyDescription]
    ELSE IF \E i \in 1..Len(digits) : ~IsDigit(digits[i])
    THEN [ok |-> FALSE, description |-> InvalidDigitDescription]
    ELSE IF Overflows(digits)
    THEN [ok |-> FALSE, description |-> OverflowDescription]
    ELSE Parsed(digits)

(***************************************************************************)
(* LspHeader::parse_from_line                                              *)
(***************************************************************************)

\* a line without the separator taken as a key without a value
parse_from_line_lenient(line) ==
    LET at == Find(line, ColonSpace, 1) IN
    IF at = 0
    THEN [ok |-> TRUE, key |-> trim(line), value |-> <<>>]
    ELSE [ok |-> TRUE,
          key |-> trim(SubSeq(line, 1, at - 1)),
          value |-> trim(SubSeq(line, at + 2, Len(line)))]

parse_from_line(line) ==
    LET at == Find(line, ColonSpace, 1) IN
    IF at = 0
    THEN [ok |-> FALSE,
          msg |-> Concat(<<MalformedPrefix, line, Apostrophe>>)]
    ELSE [ok |-> TRUE,
          key |-> trim(SubSeq(line, 1, at - 1)),
          value |-> trim(SubSeq(line, at + 2, Len(line)))]

(***************************************************************************)
(* io results                                                              *)
(***************************************************************************)

IoOk(text, p) == [ok |-> TRUE, text |-> text, pos |-> p]
IoErr(kind, msg, p) == [ok |-> FALSE, kind |-> kind, msg |-> msg, pos |-> p]

\* BufRead::read_line: the bytes up to and including the next LF, or up to
\* the end of the stream
LineEnd(s, p) ==
    LET nl == Find(s, <<10>>, p + 1) IN IF nl = 0 THEN Len(s) ELSE nl

(***************************************************************************)
(* read_lsp_packet                                                         *)
(***************************************************************************)

\* the end of the stream read as the end of the header block
OnZeroBytesBreak(e, packet_size) ==
    [ok |-> TRUE, packet_size |-> packet_size, pos |-> e]

\* read_bytes == 0
OnZeroBytes(e, packet_size) ==
    [ok |-> FALSE, kind |-> "UnexpectedEof", msg |-> <<>>, pos |-> e]

\* the line that failed put back: the cursor stays at p, where the line began
HeaderErrorRewound(msg, p, e) ==
    [ok |-> FALSE, kind |-> "InvalidData", msg |-> msg, pos |-> p]

\* return Err(io::Error::new(io::ErrorKind::InvalidData, msg)) in the header
\* loop: the line read from p to e stays consumed
HeaderError(msg, p, e) ==
    [ok |-> FALSE, kind |-> "InvalidData", msg |-> msg, pos |-> e]

\* the key compared as it was written, with Content-Length
IsContentLengthExact(header) == header.key = ContentLengthKey

\* header.key.to_lowercase() == "content-length"
IsContentLength(header) == to_lowercase(header.key) = content_length

\* a Content-Length seen before is kept
AssignFirst(packet_size, n) ==
    IF packet_size.some THEN packet_size
    ELSE [some |-> TRUE, size |-> n.size, huge |-> n.huge]

\* packet_size = Some(size)
Assign(packet_size, n) == [some |-> TRUE, size |-> n.size, huge |-> n.huge]

\* end is what the stream gives once its bytes are used up: "Eof" (a read
\* of zero bytes) or "Error" (the read fails, e.g. the peer reset the pipe)
RECURSIVE ReadHeaders(_, _, _, _)

\* the Content-Length header with value parsed as n, on the line from p to e
OnLength(n, s, end, p, e, packet_size) ==
    IF n.ok
    THEN ReadHeaders(s, end, e, Assign(packet_size, n))
    ELSE HeaderError(InvalidNumberPrefix \o n.description, p, e)

\* the line from p to e parsed as header
OnHeader(header, s, end, p, e, packet_size) ==
    IF ~header.ok THEN HeaderError(header.msg, p, e)
    ELSE IF ~IsContentLength(header)
    THEN ReadHeaders(s, end, e, packet_size)
    ELSE OnLength(from_str_radix(header.value), s, end, p, e, packet_size)

\* the line buf read from p to e
OnLine(buf, s, end, p, e, packet_size) ==
    IF end = "Error" /\ (buf = <<>> \/ buf[Len(buf)] # 10)
    THEN [ok |-> FALSE, kind |-> "ConnectionReset", msg |-> <<>>, pos |-> e]
    ELSE IF ~from_utf8_ok(buf)
    THEN [ok |-> FALSE, kind |-> "InvalidData",
          msg |-> StreamNotUtf8, pos |-> e]
    ELSE IF Len(buf) = 0 THEN OnZeroBytes(e, packet_size)
    ELSE IF buf = CRLF
    THEN [ok |-> TRUE, packet_size |-> packet_size, pos |-> e]
    ELSE OnHeader(parse_from_line(buf), s, end, p, e, packet_size)

\* the line read at p ends at e
LineTo(e, s, end, p, packet_size) ==
    OnLine(SubSeq(s, p + 1, e), s, end, p, e, packet_size)

ReadHeaders(s, end, p, packet_size) ==
    LineTo(LineEnd(s, p), s, end, p, packet_size)

\* a packet without Content-Length taken as a packet without body
NoSizeZero == [some |-> TRUE, size |-> 0, huge |-> FALSE]

\* let mut packet_size: Option<usize> = None
NoSize == [some |-> FALSE, size |-> 0, huge |-> FALSE]

\* the body handed over while its bytes stay in the stream
read_exact_peek(s, p, size) ==
    [content |-> SubSeq(s, p + 1, p + size), pos |-> p]

\* input.read_exact(&mut content) when size bytes are left
read_exact(s, p, size) ==
    [content |-> SubSeq(s, p + 1, p + size), pos |-> p + size]

\* String::from_utf8(content).map_err(..)
Decoded(body) ==
    IF from_utf8_ok(body.content)
    THEN IoOk(body.content, body.pos)
    ELSE IoErr("InvalidData", NotUtf8Prefix \o Utf8Description, body.pos)

\* the packet after its header block h.  vec![0; size] cannot have more
\* than isize::MAX bytes: above that the allocation panics with "capacity
\* overflow" or aborts the process, whatever the stream holds.  Memory is
\* taken to suffice for every size up to isize::MAX.
Body(h, s, end) ==
    IF ~h.ok THEN IoErr(h.kind, h.msg, h.pos)
    ELSE IF ~h.packet_size.some
    THEN IoErr("InvalidData", HeaderMissing, h.pos)
    ELSE IF h.packet_size.huge
    THEN IoErr("Abort", <<>>, h.pos)
    ELSE IF h.pos + h.packet_size.size > Len(s)
    THEN IF end = "Error"
         THEN IoErr("ConnectionReset", <<>>, Len(s))
         ELSE IoErr("UnexpectedEof", FailedToFill, Len(s))
    ELSE Decoded(read_exact(s, h.pos, h.packet_size.size))

read_lsp_packet(s, end, p) == Body(ReadHeaders(s, end, p, NoSize), s, end)

(***************************************************************************)
(* serde_json::Value and serde_json::from_str                              *)
(*                                                                         *)
(* The fragment of JSON modelled: null, true, false, integers of at most   *)
(* MaxDigits digits, strings without escapes, arrays, objects.  The        *)
(* streams of the model stay inside it.  An object is a function from its  *)
(* keys to its members (serde_json::Map, a BTreeMap: a repeated key keeps  *)
(* the last member).                                                       *)
(***************************************************************************)

Null == [t |-> "Null"]
Bool(b) == [t |-> "Bool", b |-> b]
Num(n) == [t |-> "Num", n |-> n]
Str(s) == [t |-> "Str", s |-> s]
Arr(a) == [t |-> "Arr", a |-> a]
Obj(o) == [t |-> "Obj", o |-> o]

EmptyMap == <<>>
Insert(o, k, v) == [x \in DOMAIN o \cup {k} |-> IF x = k THEN v ELSE o[x]]
\* an object written as a sequence of <<key, member>> pairs, as in json!({...})
RECURSIVE MapOf(_)
MapOf(kvs) ==
    IF kvs = <<>> THEN EmptyMap
    ELSE Insert(MapOf(SubSeq(kvs, 1, Len(kvs) - 1)),
                kvs[Len(kvs)][1], kvs[Len(kvs)][2])

MaxDigits == 6

At(s, i) == IF i >= 1 /\ i <= Len(s) THEN s[i] ELSE -1

RECURSIVE SkipWs(_, _)
SkipWs(s, i) == IF At(s, i) \in {32, 9, 10, 13} THEN SkipWs(s, i + 1) ELSE i

JFail == [ok |-> FALSE]
JOk(v, p) == [ok |-> TRUE, val |-> v, pos |-> p]

RECURSIVE DigitsEnd(_, _)
DigitsEnd(s, i) == IF IsDigit(At(s, i)) THEN DigitsEnd(s, i + 1) ELSE i

RECURSIVE Decimal(_, _)
Decimal(ds, acc) ==
    IF ds = <<>> THEN acc ELSE Decimal(Tail(ds), acc * 10 + (Head(ds) - 48))

ParseNumber(s, i) ==
    LET neg == At(s, i) = 45
        d   == IF neg THEN i + 1 ELSE i
        e   == DigitsEnd(s, d)
    IN
    IF e = d THEN JFail
    ELSE IF At(s, d) = 48 /\ e > d + 1 THEN JFail
    ELSE IF e - d > MaxDigits \/ At(s, e) \in {46, 69, 101} THEN JFail
    ELSE LET n == Decimal(SubSeq(s, d, e - 1), 0) IN
         JOk(Num(IF neg THEN 0 - n ELSE n), e)

\* the string whose opening quote is at i - 1
ParseString(s, i) ==
    LET q == Find(s, <<34>>, i) IN
    IF q = 0 THEN JFail
    ELSE IF \E k \in i..(q - 1) : s[k] < 32 \/ s[k] = 92 THEN JFail
    ELSE JOk(Str(SubSeq(s, i, q - 1)), q + 1)

Keyword(s, i, word, v) ==
    IF i + Len(word) - 1 <= Len(s) /\ SubSeq(s, i, i + Len(word) - 1) = word
    THEN JOk(v, i + Len(word)) ELSE JFail

RECURSIVE ParseValue(_, _)
RECURSIVE ParseElements(_, _, _)
RECURSIVE ParseMembers(_, _, _)

ParseValue(s, i) ==
    LET j == SkipWs(s, i)
        c == At(s, j)
    IN
    IF c = 110 THEN Keyword(s, j, NullWord, Null)
    ELSE IF c = 116 THEN Keyword(s, j, TrueWord, Bool(TRUE))
    ELSE IF c = 102 THEN Keyword(s, j, FalseWord, Bool(FALSE))
    ELSE IF c = 34 THEN ParseString(s, j + 1)
    ELSE IF c = 45 \/ IsDigit(c) THEN ParseNumber(s, j)
    ELSE IF c = 91
    THEN IF At(s, SkipWs(s, j + 1)) = 93
         THEN JOk(Arr(<<>>), SkipWs(s, j + 1) + 1)
         ELSE ParseElements(s, j + 1, <<>>)
    ELSE IF c = 123
    THEN IF At(s, SkipWs(s, j + 1)) = 125
         THEN JOk(Obj(EmptyMap), SkipWs(s, j + 1) + 1)
         ELSE ParseMembers(s, j + 1, EmptyMap)
    ELSE JFail

ParseElements(s, i, acc) ==
    LET v == ParseValue(s, i) IN
    IF ~v.ok THEN JFail
    ELSE LET j == SkipWs(s, v.pos) IN
         IF At(s, j) = 44 THEN ParseElements(s, j + 1, Append(acc, v.val))
         ELSE IF At(s, j) = 93 THEN JOk(Arr(Append(acc, v.val)), j + 1)
         ELSE JFail

ParseMembers(s, i, acc) ==
    LET j == SkipWs(s, i) IN
    IF At(s, j) # 34 THEN JFail
    ELSE LET k == ParseString(s, j + 1) IN
         IF ~k.ok THEN JFail
         ELSE LET c == SkipWs(s, k.pos) IN
              IF At(s, c) # 58 THEN JFail
              ELSE LET v == ParseValue(s, c + 1) IN
                   IF ~v.ok THEN JFail
                   ELSE LET e == SkipWs(s, v.pos)
                            m == Insert(acc, k.val.s, v.val)
                        IN
                        IF At(s, e) = 44 THEN ParseMembers(s, e + 1, m)
                        ELSE IF At(s, e) = 125 THEN JOk(Obj(m), e + 1)
                        ELSE JFail

\* serde_json::from_str: one value, then nothing but whitespace
from_str(s) ==
    LET v == ParseValue(s, 1) IN
    IF v.ok /\ SkipWs(s, v.pos) > Len(s) THEN v ELSE JFail

(***************************************************************************)
(* serde_json::Value::to_string (compact, keys in BTreeMap order)          *)
(***************************************************************************)

RECURSIVE SeqLess(_, _)
SeqLess(a, b) ==
    IF b = <<>> THEN FALSE
    ELSE IF a = <<>> THEN TRUE
    ELSE IF Head(a) # Head(b) THEN Head(a) < Head(b)
    ELSE SeqLess(Tail(a), Tail(b))

MinKey(ks) == CHOOSE k \in ks : \A x \in ks \ {k} : SeqLess(k, x)

RECURSIVE NatDigits(_)
NatDigits(n) == IF n < 10 THEN <<48 + n>> ELSE Append(NatDigits(n \div 10), 48 + (n % 10))

RECURSIVE to_string(_)
RECURSIVE ElementsString(_)
RECURSIVE MembersString(_, _)

to_string(v) ==
    IF v.t = "Null" THEN NullWord
    ELSE IF v.t = "Bool" THEN (IF v.b THEN TrueWord ELSE FalseWord)
    ELSE IF v.t = "Num"
    THEN (IF v.n < 0 THEN <<45>> \o NatDigits(0 - v.n) ELSE NatDigits(v.n))
    ELSE IF v.t = "Str" THEN <<34>> \o v.s \o <<34>>
    ELSE IF v.t = "Arr" THEN <<91>> \o ElementsString(v.a) \o <<93>>
    ELSE <<123>> \o MembersString(v.o, DOMAIN v.o) \o <<125>>

ElementsString(a) ==
    IF a = <<>> THEN <<>>
    ELSE to_string(Head(a))
         \o (IF Len(a) > 1 THEN <<44>> \o ElementsString(Tail(a)) ELSE <<>>)

MembersString(o, ks) ==
    IF ks = {} THEN <<>>
    ELSE LET k == MinKey(ks) IN
         <<34>> \o k \o <<34, 58>> \o to_string(o[k])
         \o (IF ks = {k} THEN <<>> ELSE <<44>> \o MembersString(o, ks \ {k}))

\* Value::get(key): the member of an object, absent for any other value
Has(v, key) == v.t = "Obj" /\ key \in DOMAIN v.o
Get(v, key) == v.o[key]

(***************************************************************************)
(* jsonrpc_core::Id and JsonRpcServer::parse_message                       *)
(***************************************************************************)

IdNull == [id |-> "Null"]
IdNum(n) == [id |-> "Num", n |-> n]
IdStr(s) == [id |-> "Str", s |-> s]

\* serde_json::from_value::<Id>: null, an unsigned number or a string
DecodeId(v) ==
    IF v.t = "Null" THEN [ok |-> TRUE, id |-> IdNull]
    ELSE IF v.t = "Num" /\ v.n >= 0 THEN [ok |-> TRUE, id |-> IdNum(v.n)]
    ELSE IF v.t = "Str" THEN [ok |-> TRUE, id |-> IdStr(v.s)]
    ELSE [ok |-> FALSE]

\* the Id as it is serialised
IdValue(i) ==
    IF i.id = "Null" THEN Null ELSE IF i.id = "Num" THEN Num(i.n) ELSE Str(i.s)

\* jsonrpc::Error::invalid_request()
invalid_request ==
    Obj(MapOf(<< <<KeyCode, Num(-32600)>>,
                 <<KeyMessage, Str(InvalidRequestMessage)>> >>))

Panic(line) == [kind |-> "Panic", line |-> line]

\* the id the JsonResponseHandle of a Request is constructed with
HandleId(id) == 123

\* the match on id at the end of parse_message.  packet_id is not a field
\* of RawRequest: it records the id member of the packet, which parse_message
\* does not pass on
Classify(id, method, params) ==
    IF id = IdNull
    THEN [kind |-> "Notification", method |-> method, params |-> params]
    ELSE [kind |-> "Request", method |-> method, params |-> params,
          response |-> [id |-> HandleId(id)], packet_id |-> id]

\* absent and null params defaulted to an empty object
ParamsDefaultEmpty(msg) ==
    IF ~Has(msg, KeyParams) THEN [ok |-> TRUE, params |-> Obj(EmptyMap)]
    ELSE LET p == Get(msg, KeyParams) IN
         IF p.t \in {"Obj", "Arr"} THEN [ok |-> TRUE, params |-> p]
         ELSE IF p.t = "Null" THEN [ok |-> TRUE, params |-> Null]
         ELSE [ok |-> FALSE]

\* the match on msg.get("params")
Params(msg) ==
    IF ~Has(msg, KeyParams) THEN [ok |-> TRUE, params |-> Null]
    ELSE LET p == Get(msg, KeyParams) IN
         IF p.t \in {"Obj", "Arr"} THEN [ok |-> TRUE, params |-> p]
         ELSE IF p.t = "Null" THEN [ok |-> TRUE, params |-> Null]
         ELSE [ok |-> FALSE]

\* parse_message once the id is decoded: the method, then the params
Identified(msg, id) ==
    IF ~id.ok THEN Panic(23)
    ELSE IF ~Has(msg, KeyMethod)
    THEN [kind |-> "Failure", jsonrpc |-> V2, id |-> id.id,
          error |-> invalid_request]
    ELSE IF Get(msg, KeyMethod).t # "Str" THEN Panic(35)
    ELSE IF ~Params(msg).ok THEN Panic(44)
    ELSE Classify(id.id, Get(msg, KeyMethod).s, Params(msg).params)

\* parse_message once the packet is parsed as JSON: the id
Envelope(j) ==
    IF ~j.ok THEN Panic(20)
    ELSE Identified(j.val,
                    IF Has(j.val, KeyId) THEN DecodeId(Get(j.val, KeyId))
                    ELSE [ok |-> TRUE, id |-> IdNull])

parse_message(packet) == Envelope(from_str(packet))

(***************************************************************************)
(* JsonRpcServer::read_message                                             *)
(*                                                                         *)
(* The transport of the server is the LspTransport of transport.rs for     *)
(* receive_packet and the FakeTransport of the tests for send_packet.      *)
(* The loop is unrolled by recursion: s is the stream, p the cursor, out   *)
(* the packets sent so far, log the receive_packet results of this call.   *)
(***************************************************************************)

RECURSIVE ReadLoop(_, _, _, _, _)

\* a format error of the framer skipped like a parse failure
OnReceiveErrorSkip(r, s, end, out, log) ==
    IF r.kind = "InvalidData"
    THEN ReadLoop(s, end, r.pos, out, Append(log, r))
    ELSE [out |-> "Err", err |-> [kind |-> r.kind, msg |-> r.msg],
          pos |-> r.pos, sent |-> out, log |-> Append(log, r)]

\* the read tried once more after the stream has ended or failed
OnReceiveErrorRetry(r, s, end, out, log) ==
    LET again == read_lsp_packet(s, end, r.pos) IN
    IF r.kind \in {"UnexpectedEof", "ConnectionReset"} /\ ~again.ok
    THEN [out |-> "Err", err |-> [kind |-> again.kind, msg |-> again.msg],
          pos |-> again.pos, sent |-> out, log |-> Append(Append(log, r), again)]
    ELSE [out |-> "Err", err |-> [kind |-> r.kind, msg |-> r.msg],
          pos |-> r.pos, sent |-> out, log |-> Append(log, r)]

\* receive_packet()? on an Err
OnReceiveError(r, s, end, out, log) ==
    [out |-> "Err", err |-> [kind |-> r.kind, msg |-> r.msg],
     pos |-> r.pos, sent |-> out, log |-> Append(log, r)]

\* the failure handed to the caller as the error of the call
OnParseFailureReturn(failure, r, s, end, out, log) ==
    [out |-> "Err", err |-> [kind |-> "InvalidRequest", msg |-> <<>>],
     pos |-> r.pos, sent |-> out, log |-> Append(log, r)]

\* the failure sent back to the client before the loop continues
OnParseFailureReply(failure, r, s, end, out, log) ==
    ReadLoop(s, end, r.pos,
             Append(out, to_string(Obj(MapOf(<< <<KeyJsonrpc, Str(failure.jsonrpc)>>,
                                                <<KeyId, IdValue(failure.id)>>,
                                                <<KeyError, failure.error>> >>)))),
             Append(log, r))

\* Err(failure) => continue
OnParseFailure(failure, r, s, end, out, log) ==
    ReadLoop(s, end, r.pos, out, Append(log, r))

\* the match on parse_message(&packet)
OnPacket(m, r, s, end, out, log) ==
    IF m.kind = "Panic"
    THEN [out |-> "Panic", line |-> m.line,
          pos |-> r.pos, sent |-> out, log |-> Append(log, r)]
    ELSE IF m.kind = "Failure"
    THEN OnParseFailure(m, r, s, end, out, log)
    ELSE [out |-> "Ok", message |-> m,
          pos |-> r.pos, sent |-> out, log |-> Append(log, r)]

\* one turn of the loop, r the result of receive_packet; when the
\* allocation of the body aborts in receive_packet, the call at rpc.rs:65
\* never returns
Turn(r, s, end, out, log) ==
    IF ~r.ok /\ r.kind = "Abort"
    THEN [out |-> "Panic", line |-> 65,
          pos |-> r.pos, sent |-> out, log |-> Append(log, r)]
    ELSE IF ~r.ok THEN OnReceiveError(r, s, end, out, log)
    ELSE OnPacket(parse_message(r.text), r, s, end, out, log)

ReadLoop(s, end, p, out, log) == Turn(read_lsp_packet(s, end, p), s, end, out, log)

(***************************************************************************)
(* JsonResponseHandle                                                      *)
(***************************************************************************)

\* json!({ "result": result }).to_string()
SuccessPacket(handle, result) ==
    to_string(Obj(MapOf(<< <<KeyResult, result>> >>)))

\* json!({ "error": error }).to_string()
FailurePacket(handle, error) ==
    to_string(Obj(MapOf(<< <<KeyError, error>> >>)))

\* a handle taken by reference stays usable
ConsumeNot(handle) == handle

\* success and failure take self by value: the handle is moved into the
\* call and cannot be used again
Consume(handle) == [handle EXCEPT !.live = FALSE]

(***************************************************************************)
(* The streams of the model                                                *)
(***************************************************************************)

Header(key, value) == key \o ColonSpace \o value \o CRLF

ContentLength(n) == Header(ContentLengthKey, NatDigits(n))

\* a well-formed packet with the one header Content-Length
Frame(body) == ContentLength(Len(body)) \o CRLF \o body

ReqTest == B("{\"id\":123,\"method\":\"hover\",\"params\":{\"key\":\"value\"}}")
ReqNoParams == B("{\"id\":\"a\",\"method\":\"open\"}")
ReqNullParams == B("{\"id\":\"a\",\"method\":\"open\",\"params\":null}")
NoteTest == B("{\"method\":\"hover\",\"params\":{\"key\":\"value\"}}")
NoteNullId == B("{\"id\":null,\"method\":\"hover\",\"params\":[]}")
NoteNoParams == B("{\"method\":\"hover\"}")
NoteNullParams == B("{\"method\":\"hover\",\"params\":null}")
NoteEmptyObj == B("{\"method\":\"hover\",\"params\":{}}")
NoteEmptyArr == B("{\"method\":\"hover\",\"params\":[]}")
NoMethodId == B("{\"id\":7}")
NoMethodNoId == B("{\"params\":[]}")
NoMethodStrId == B("{\"id\":\"a\",\"params\":{}}")
BadSyntax == B("{\"method\"")
MethodNotString == B("{\"id\":7,\"method\":1}")
ParamsNumber == B("{\"method\":\"hover\",\"params\":5}")
ParamsString == B("{\"id\":7,\"method\":\"hover\",\"params\":\"x\"}")
IdBool == B("{\"id\":true,\"method\":\"hover\"}")

\* bodies that are a Request or a Notification
MessageBodies ==
    {ReqTest, ReqNoParams, ReqNullParams, NoteTest, NoteNullId,
     NoteNoParams, NoteNullParams, NoteEmptyObj, NoteEmptyArr}

\* bodies with a JSON-RPC envelope malformation
MalformedBodies ==
    {NoMethodId, NoMethodNoId, NoMethodStrId, BadSyntax, MethodNotString, ParamsNumber,
     ParamsString, IdBool}

InvalidHeaderLine == B("Invalid-Header") \o CRLF

\* packets with a header line without ": ", before Content-Length (as in
\* tests::receive_packet_fails_when_header_line_is_invalid) or after it;
\* upto is the length of the packet up to the end of that line
BadHeaderPackets ==
    {[packet |-> InvalidHeaderLine \o Frame(ReqTest),
      upto |-> Len(InvalidHeaderLine)],
     [packet |-> ContentLength(Len(NoteTest)) \o InvalidHeaderLine \o CRLF \o NoteTest,
      upto |-> Len(ContentLength(Len(NoteTest)) \o InvalidHeaderLine)]}

ServerPackets ==
    {Frame(b) : b \in MessageBodies \cup MalformedBodies}
    \cup {k.packet : k \in BadHeaderPackets}

\* Latin text, a two-byte and a three-byte character, and line ends
Utf8Text == <<104, 105, 195, 169, 226, 130, 172, 13, 10, 13, 10, 98>>
\* the body of tests::receive_packet_fails_when_content_is_not_valid_utf8
NotUtf8 == <<130, 230, 130, 168, 130, 177, 130>>

ContentEncoding == Header(B("Content-Encoding"), B("utf8"))
UnknownHeader == Header(B("Unknown-Header"), B("value :value"))

FramerBodies == {<<>>, B("Message"), Utf8Text}

\* packets with the header Content-Length: N, alone, with another header
\* before it, after it, or both, and N bytes of UTF-8
WellFormed ==
    UNION {{[packet |-> Frame(b), body |-> b],
            [packet |-> ContentEncoding \o Frame(b), body |-> b],
            [packet |-> ContentLength(Len(b)) \o UnknownHeader \o CRLF \o b,
             body |-> b],
            [packet |-> UnknownHeader \o ContentLength(Len(b)) \o ContentEncoding
                        \o CRLF \o b,
             body |-> b]}
           : b \in FramerBodies}

GoodFramerPackets == {w.packet : w \in WellFormed}

Message == B("Message")

\* packets whose Content-Length is written in another case, with a sign or
\* leading zeros, more than once, or next to headers with a similar key
LengthVariants ==
    {[packet |-> Header(B("content-length"), B("7")) \o CRLF \o Message,
      body |-> Message],
     [packet |-> Header(B("CONTENT-LENGTH"), B("7")) \o CRLF \o Message,
      body |-> Message],
     [packet |-> Header(B("cOnTeNt-lEnGtH"), B("7")) \o UnknownHeader \o CRLF \o Message,
      body |-> Message],
     [packet |-> Header(B("Content-Lengths"), B("3")) \o ContentLength(7)
                 \o Header(B("X-Content-Length"), B("99")) \o CRLF \o Message,
      body |-> Message],
     [packet |-> Header(ContentLengthKey, B("+7")) \o CRLF \o Message,
      body |-> Message],
     [packet |-> Header(ContentLengthKey, B("007")) \o CRLF \o Message,
      body |-> Message],
     [packet |-> ContentLength(3) \o ContentLength(7) \o CRLF \o Message,
      body |-> Message],
     [packet |-> ContentLength(9) \o UnknownHeader \o ContentLength(7) \o CRLF
                 \o Message,
      body |-> Message],
     [packet |-> ContentLength(7) \o ContentLength(0) \o CRLF,
      body |-> <<>>],
     [packet |-> Header(B("content-length"), B("2")) \o ContentLength(1)
                 \o Header(B("CONTENT-LENGTH"), B("7")) \o CRLF \o Message,
      body |-> Message]}

\* header blocks that the stream ends in, or that run into the next packet
OpenHeaderBlocks ==
    {ContentLength(7), ContentEncoding, B("Content-Length: 7")}

BadFramerPackets ==
    {InvalidHeaderLine \o Frame(Message),
     ContentLength(7) \o InvalidHeaderLine \o CRLF \o Message,
     B("Content-Length:7") \o CRLF \o CRLF \o Message,
     ContentEncoding \o CRLF \o B("Some Message"),
     Header(ContentLengthKey, B("abcd")) \o CRLF \o Message,
     Header(ContentLengthKey, B("1000000000000000000000")) \o CRLF \o Message,
     Header(ContentLengthKey, B("18446744073709551616")) \o CRLF \o Message,
     Header(ContentLengthKey, B("-1")) \o CRLF \o Message,
     Header(ContentLengthKey, <<>>) \o CRLF \o Message,
     ContentLength(7) \o Header(ContentLengthKey, B("7a")) \o CRLF \o Message,
     Header(ContentLengthKey, B("18446744073709551615")) \o CRLF \o Message,
     Header(ContentLengthKey, B("9223372036854775808")) \o CRLF \o Message,
     Header(ContentLengthKey, B("9223372036854775807")) \o CRLF \o Message,
     Frame(NotUtf8),
     ContentLength(9) \o CRLF \o Message,
     B("Content-Len")}

FramerPackets ==
    GoodFramerPackets \cup {v.packet : v \in LengthVariants}
    \cup OpenHeaderBlocks \cup BadFramerPackets

\* the streams are at most MaxPackets packets long
MaxPackets == 2

\* receive_packet is called at most MaxCalls times on a stream
MaxCalls == 4

RECURSIVE StreamsOf(_, _)
StreamsOf(packets, n) ==
    IF n = 0 THEN {<<>>}
    ELSE LET shorter == StreamsOf(packets, n - 1) IN
         shorter \cup {s \o k : s \in shorter, k \in packets}

\* the packets that are put before and after the others
CorePackets == {Frame(Message), ContentEncoding \o Frame(Utf8Text), Frame(<<>>)}

\* the streams of the framer: at most MaxPackets packets, all of them core
\* packets but at most one, which is any framer packet at any place
FramerStreams ==
    UNION {{a \o k \o b : a \in StreamsOf(CorePackets, i),
                          k \in FramerPackets \cup {<<>>},
                          b \in StreamsOf(CorePackets, MaxPackets - 1 - i)}
           : i \in 0..(MaxPackets - 1)}

\* the values handed to success, the errors handed to failure
Results == {Obj(MapOf(<< <<B("success"), Str(B("yes"))>> >>)), Null}
Errors == {invalid_request}

(***************************************************************************)
(* The state machine                                                       *)
(***************************************************************************)

InitOn(streams) ==
    /\ input \in streams
    /\ inputEnd \in {"Eof", "Error"}
    /\ pos = 0
    /\ sent = <<>>
    /\ handles = <<>>
    /\ last = [call |-> "none"]
    /\ recvLog = <<>>
    /\ returned = <<>>
    /\ crashed = FALSE

InitWith(packets) == InitOn(StreamsOf(packets, MaxPackets))

\* LspTransport { input: cursor } over a stream of framer packets
InitFramer == InitOn(FramerStreams)

\* JsonRpcServer { transport } over a stream of server packets
Init == InitWith(ServerPackets)

\* the state after a receive_packet call that gave r
\* recvLog keeps the calls made so far, each with the cursor it began at
Received(r) ==
    /\ pos' = r.pos
    /\ last' = [call |-> "receive_packet", start |-> pos, res |-> r]
    /\ recvLog' = Append(recvLog, [start |-> pos, res |-> r])
    /\ crashed' = (~r.ok /\ r.kind = "Abort")
    /\ UNCHANGED <<input, inputEnd, sent, handles, returned>>

\* LspTransport::receive_packet, called as the tests of transport.rs do, at
\* most MaxCalls times
ReceivePacket ==
    /\ ~crashed
    /\ Len(recvLog) < MaxCalls
    /\ Received(read_lsp_packet(input, inputEnd, pos))

\* the state after a read_message call that ended as r
Returned(r) ==
    /\ pos' = r.pos
    /\ sent' = r.sent
    /\ recvLog' = r.log
    /\ crashed' = (r.out = "Panic")
    /\ handles' = IF r.out = "Ok" /\ r.message.kind = "Request"
                  THEN Append(handles,
                              [id |-> r.message.response.id, live |-> TRUE,
                               packet_id |-> r.message.packet_id,
                               replies |-> <<>>])
                  ELSE handles
    /\ returned' = IF r.out = "Ok"
                   THEN Append(returned, [message |-> r.message,
                                          packet |-> r.log[Len(r.log)].text])
                   ELSE returned
    /\ last' = [call |-> "read_message", start |-> pos, sent |-> Len(sent),
                res |-> [x \in DOMAIN r \ {"pos", "sent", "log"} |-> r[x]]]
    /\ UNCHANGED <<input, inputEnd>>

\* JsonRpcServer::read_message: the whole call
ReadMessage ==
    /\ ~crashed
    /\ Returned(ReadLoop(input, inputEnd, pos, sent, <<>>))

\* the state after handle h has sent packet
Replied(h, packet) ==
    /\ sent' = Append(sent, packet)
    /\ handles' = [handles EXCEPT
                     ![h] = [Consume(@) EXCEPT !.replies = Append(@, Len(sent) + 1)]]
    /\ UNCHANGED <<input, inputEnd, pos, recvLog, returned, crashed>>

\* raw_request.response.success(result)
Success(h, result) ==
    /\ ~crashed
    /\ handles[h].live
    /\ Replied(h, SuccessPacket(handles[h], result))
    /\ last' = [call |-> "success", handle |-> h, arg |-> result]

\* raw_request.response.failure(error)
Failure(h, error) ==
    /\ ~crashed
    /\ handles[h].live
    /\ Replied(h, FailurePacket(handles[h], error))
    /\ last' = [call |-> "failure", handle |-> h, arg |-> error]

NextFramer == ReceivePacket

Next ==
    \/ ReadMessage
    \/ \E h \in 1..Len(handles), result \in Results : Success(h, result)
    \/ \E h \in 1..Len(handles), error \in Errors : Failure(h, error)

SpecFramer == InitFramer /\ [][NextFramer]_vars

Spec == Init /\ [][Next]_vars

(***************************************************************************)
(* Properties                                                              *)
(***************************************************************************)

\* the unread part of s after p bytes begins with the bytes pk
StartsWith(s, p, pk) == p + Len(pk) <= Len(s) /\ SubSeq(s, p + 1, p + Len(pk)) = pk

\* C1: when the stream, at the point where receive_packet is called, begins
\* with a well-formed packet (Content-Length: N among any other headers, the
\* blank line, N bytes of UTF-8), the call returns Ok with exactly those N
\* bytes and leaves the cursor right after them.
C1_ExactBody ==
    last.call = "receive_packet" =>
        \A w \in WellFormed :
            StartsWith(input, last.start, w.packet) =>
                last.res = IoOk(w.body, last.start + Len(w.packet))

\* a packet with other headers and a body, followed by more bytes, has been
\* framed
C1_Witness ==
    /\ last.call = "receive_packet"
    /\ \E w \in WellFormed :
          /\ w.body # <<>>
          /\ w.packet # Frame(w.body)
          /\ StartsWith(input, last.start, w.packet)
          /\ Len(input) > last.start + Len(w.packet)
          /\ last.res.ok

\* the streams of two packets, the first with a malformed header line, the
\* second a well-formed packet with a Request or a Notification as its body
BadThenGood ==
    {[stream |-> k.packet \o Frame(b), body |-> b, upto |-> k.upto]
     : k \in BadHeaderPackets, b \in MessageBodies}

\* C2 as claimed: a stream of a packet with a malformed header line and a
\* well-formed packet makes the first read_message call return Ok with the
\* Message of the second packet.
C2_SkipsBadHeader ==
    \A c \in BadThenGood :
        (/\ input = c.stream
         /\ last.call = "read_message"
         /\ last.start = 0)
        => /\ last.res.out = "Ok"
           /\ returned = <<[message |-> parse_message(c.body), packet |-> c.body]>>

\* C2 as amended: on such a stream the first read_message call returns the
\* framing failure itself, Err(InvalidData, "Malformed LSP header: '<line>'"),
\* after one receive_packet call that consumed the stream up to the end of
\* the offending line; no Message is returned.
C2_BadHeaderIsReturned ==
    \A c \in BadThenGood :
        (/\ input = c.stream
         /\ last.call = "read_message"
         /\ last.start = 0)
        => /\ last.res.out = "Err"
           /\ last.res.err.kind = "InvalidData"
           /\ last.res.err.msg = MalformedPrefix \o InvalidHeaderLine \o Apostrophe
           /\ Len(recvLog) = 1
           /\ pos = c.upto
           /\ returned = <<>>

C2_Witness ==
    /\ \E c \in BadThenGood : input = c.stream
    /\ last.call = "read_message"
    /\ last.start = 0
    /\ last.res.out = "Err"

\* C3: the packet a Dispatcher sends decodes to the object with the members
\* jsonrpc "2.0", id (the id of the request's packet) and result (for
\* success) or error (for failure), and no other member.
C3_ReplyEnvelope ==
    last.call \in {"success", "failure"} =>
        from_str(sent[Len(sent)]) =
            JOk(Obj(MapOf(<< <<KeyJsonrpc, Str(V2)>>,
                             <<KeyId, IdValue(handles[last.handle].packet_id)>>,
                             <<IF last.call = "success" THEN KeyResult ELSE KeyError,
                               last.arg>> >>)),
                Len(sent[Len(sent)]) + 1)

\* C4: no Dispatcher has written more than one reply, and a Dispatcher that
\* has written one is consumed.
C4_AtMostOneReply ==
    \A h \in 1..Len(handles) :
        /\ Len(handles[h].replies) <= 1
        /\ handles[h].replies # <<>> => ~handles[h].live

\* two requests have been returned and the first one answered
C4_Witness ==
    /\ Len(handles) = 2
    /\ Len(handles[1].replies) = 1
    /\ ~handles[1].live

\* C5: every Message returned has the kind its packet's id decides
\* (Notification for an absent or null id, Request otherwise), the packet's
\* method and params, and for a Request a Dispatcher holding the packet's id.
C5_Classified ==
    \A i \in 1..Len(returned) :
        LET m == returned[i].message
            v == from_str(returned[i].packet).val
            noId == ~Has(v, KeyId) \/ Get(v, KeyId) = Null
        IN
        /\ m.kind = IF noId THEN "Notification" ELSE "Request"
        /\ m.method = Get(v, KeyMethod).s
        /\ m.params = IF Has(v, KeyParams) THEN Get(v, KeyParams) ELSE Null
        /\ m.kind = "Request" => IdNum(m.response.id) = DecodeId(Get(v, KeyId)).id

Requests == {i \in 1..Len(returned) : returned[i].message.kind = "Request"}

\* C6: the packets written never outnumber the Requests returned, and a
\* read_message call that returns a Notification writes nothing.
C6_NoReplyToNotification ==
    /\ Len(sent) <= Cardinality(Requests)
    /\ (/\ last.call = "read_message"
        /\ last.res.out = "Ok"
        /\ last.res.message.kind = "Notification") => Len(sent) = last.sent

\* a Notification has just been returned after a Request was answered
C6_Witness ==
    /\ last.call = "read_message"
    /\ last.res.out = "Ok"
    /\ last.res.message.kind = "Notification"
    /\ Len(sent) = 1
    /\ Cardinality(Requests) = 1

\* a packet body with a JSON-RPC envelope malformation
EnvelopeMalformed(text) ==
    LET j == from_str(text) IN
    \/ ~j.ok
    \/ ~Has(j.val, KeyMethod)
    \/ Get(j.val, KeyMethod).t # "Str"
    \/ Has(j.val, KeyParams) /\ Get(j.val, KeyParams).t \in {"Num", "Str", "Bool"}

\* C7: a packet with an envelope malformation never ends a read_message call:
\* the call does not panic on it and goes on to receive the next packet.
C7_MalformedIsSkipped ==
    last.call = "read_message" =>
        \A i \in 1..Len(recvLog) :
            (recvLog[i].ok /\ EnvelopeMalformed(recvLog[i].text))
            => i < Len(recvLog) /\ ~crashed

\* the stream has ended or failed
StreamFatal(r) == ~r.ok /\ r.kind \in {"UnexpectedEof", "ConnectionReset"}

\* C8: a receive_packet call that reports the end of the stream or an I/O
\* failure is the last one of its read_message call, its error is what the
\* call returns, and the call has written nothing.
C8_StreamErrorReturned ==
    last.call = "read_message" =>
        \A i \in 1..Len(recvLog) :
            StreamFatal(recvLog[i])
            => /\ i = Len(recvLog)
               /\ last.res.out = "Err"
               /\ last.res.err = [kind |-> recvLog[i].kind, msg |-> recvLog[i].msg]
               /\ Len(sent) = last.sent

\* the stream ended after a packet that was skipped
C8_Witness ==
    /\ last.call = "read_message"
    /\ Len(recvLog) = 2
    /\ recvLog[1].ok
    /\ StreamFatal(recvLog[2])
    /\ last.res.out = "Err"

\* a packet body without method whose id is not null
HasRecoverableId(text) ==
    LET j == from_str(text) IN
    /\ j.ok
    /\ ~Has(j.val, KeyMethod)
    /\ Has(j.val, KeyId)
    /\ DecodeId(Get(j.val, KeyId)).ok
    /\ Get(j.val, KeyId) # Null

\* C9: for every packet that failed envelope parsing with a recoverable id,
\* read_message has written an error reply carrying that id.
C9_FailureReported ==
    last.call = "read_message" =>
        \A i \in 1..Len(recvLog) :
            (recvLog[i].ok /\ HasRecoverableId(recvLog[i].text))
            => \E k \in (last.sent + 1)..Len(sent) :
                  LET reply == from_str(sent[k]) IN
                  /\ reply.ok
                  /\ Has(reply.val, KeyError)
                  /\ Has(reply.val, KeyId)
                  /\ Get(reply.val, KeyId) = Get(from_str(recvLog[i].text).val, KeyId)

\* object b is object a with the member params added
AddsParams(a, b, params) ==
    /\ a.t = "Obj" /\ b.t = "Obj"
    /\ KeyParams \notin DOMAIN a.o
    /\ b.o = Insert(a.o, KeyParams, params)

\* C10: of two packets returned as Messages, one without params and one
\* that differs from it only by "params": null, the Messages are equal; and
\* a Message of a packet that differs only by "params": {} or "params": []
\* has other params.
C10_NullParamsIsNoParams ==
    \A i, j \in 1..Len(returned) :
        LET a == from_str(returned[i].packet).val
            b == from_str(returned[j].packet).val
        IN
        /\ AddsParams(a, b, Null) => returned[i].message = returned[j].message
        /\ (AddsParams(a, b, Obj(EmptyMap)) \/ AddsParams(a, b, Arr(<<>>)))
           => returned[i].message.params # returned[j].message.params

\* a request without params and the same request with null params have
\* both been returned
C10_Witness ==
    \E i, j \in 1..Len(returned) :
        /\ returned[i].message.kind = "Request"
        /\ AddsParams(from_str(returned[i].packet).val,
                      from_str(returned[j].packet).val, Null)

(***************************************************************************)
(* Header blocks, described line by line                                   *)
(***************************************************************************)

\* the lines of s after its first p bytes: line l is the bytes l.from + 1
\* to l.to, and ends with LF unless the stream ends in it
RECURSIVE LinesFrom(_, _)
LinesFrom(s, p) ==
    IF p >= Len(s) THEN <<>>
    ELSE <<[from |-> p, to |-> LineEnd(s, p)]>> \o LinesFrom(s, LineEnd(s, p))

Text(s, l) == SubSeq(s, l.from + 1, l.to)

SeparatorAt(line, i) == i < Len(line) /\ line[i] = 58 /\ line[i + 1] = 32

HasSeparator(line) == \E i \in 1..Len(line) : SeparatorAt(line, i)

FirstSeparator(line) ==
    CHOOSE i \in 1..Len(line) :
        SeparatorAt(line, i) /\ \A j \in 1..(i - 1) : ~SeparatorAt(line, j)

KeyOf(line) == trim(SubSeq(line, 1, FirstSeparator(line) - 1))

ValueOf(line) == trim(SubSeq(line, FirstSeparator(line) + 2, Len(line)))

Fold(c) == IF c \in 65..90 THEN c + 32 ELSE c

SameIgnoringCase(a, b) ==
    Len(a) = Len(b) /\ \A i \in 1..Len(a) : Fold(a[i]) = Fold(b[i])

\* the line is a header whose key is Content-Length in some mix of cases
NamesLength(line) ==
    HasSeparator(line) /\ SameIgnoringCase(KeyOf(line), ContentLengthKey)

Unsigned(v) == IF v # <<>> /\ v[1] = 43 THEN Tail(v) ELSE v

\* v is a decimal integer, with or without +, that fits usize
ValidLength(v) ==
    /\ Unsigned(v) # <<>>
    /\ \A i \in 1..Len(Unsigned(v)) : IsDigit(Unsigned(v)[i])
    /\ ~Overflows(Unsigned(v))

\* a well-formed header line: text with the separator, and a valid number
\* as value when its key is Content-Length
GoodLine(line) ==
    /\ from_utf8_ok(line)
    /\ HasSeparator(line)
    /\ NamesLength(line) => ValidLength(ValueOf(line))

\* the lines ls[1..n] of s are well-formed header lines
GoodLines(s, ls, n) == \A i \in 1..n : GoodLine(Text(s, ls[i]))

\* C11: when the stream gives end of file and all that is left of it at the
\* call is well-formed header lines (none, or any number of them, a
\* Content-Length header among them or not) without the blank line,
\* receive_packet fails with UnexpectedEof and never returns a packet.
C11_EofInHeaders ==
    (/\ last.call = "receive_packet"
     /\ inputEnd = "Eof"
     /\ GoodLines(input, LinesFrom(input, last.start),
                  Len(LinesFrom(input, last.start))))
    => last.res = IoErr("UnexpectedEof", <<>>, Len(input))

\* the stream has ended after a packet and a header block with a valid
\* Content-Length
C11_Witness ==
    /\ last.call = "receive_packet"
    /\ inputEnd = "Eof"
    /\ last.start > 0
    /\ GoodLines(input, LinesFrom(input, last.start),
                 Len(LinesFrom(input, last.start)))
    /\ \E l \in {LinesFrom(input, last.start)[i] :
                   i \in 1..Len(LinesFrom(input, last.start))} :
          NamesLength(Text(input, l))
    /\ ~last.res.ok
    /\ last.res.kind = "UnexpectedEof"

\* line k of ls is the blank line that ends a header block of well-formed
\* header lines
BlankAt(s, ls, k) ==
    /\ k \in 1..Len(ls)
    /\ Text(s, ls[k]) = CRLF
    /\ GoodLines(s, ls, k - 1)

\* none of the lines ls[1..n] is a Content-Length header
NoLength(s, ls, n) == \A i \in 1..n : ~NamesLength(Text(s, ls[i]))

MissingLength(s, ls, res) ==
    \A k \in 1..Len(ls) :
        (BlankAt(s, ls, k) /\ NoLength(s, ls, k - 1))
        => res = IoErr("InvalidData", HeaderMissing, ls[k].to)

\* C12: when the header block at the call is well-formed header lines, none
\* with a key that matches content-length, and then the blank line,
\* receive_packet fails with InvalidData("Content-Length header is missing")
\* and the cursor stays right after the blank line: no body byte is read.
C12_MissingLength ==
    last.call = "receive_packet"
    => MissingLength(input, LinesFrom(input, last.start), last.res)

\* a block of other headers only, with bytes after its blank line, has been
\* read
C12_Witness ==
    /\ last.call = "receive_packet"
    /\ \E k \in 2..Len(LinesFrom(input, last.start)) :
          /\ BlankAt(input, LinesFrom(input, last.start), k)
          /\ NoLength(input, LinesFrom(input, last.start), k - 1)
          /\ LinesFrom(input, last.start)[k].to < Len(input)
    /\ ~last.res.ok
    /\ last.res.msg = HeaderMissing

\* the stream hands over the whole line l: the line ends with LF, or the
\* stream ends in it with end of file
Delivered(s, l, end) == s[l.to] = 10 \/ end = "Eof"

\* line k of ls is text without the separator and is not the blank line,
\* and the lines before it are well-formed header lines
MalformedAt(s, ls, k, end) ==
    /\ k \in 1..Len(ls)
    /\ GoodLines(s, ls, k - 1)
    /\ from_utf8_ok(Text(s, ls[k]))
    /\ Text(s, ls[k]) # CRLF
    /\ ~HasSeparator(Text(s, ls[k]))
    /\ Delivered(s, ls[k], end)

MalformedLine(s, ls, end, res) ==
    \A k \in 1..Len(ls) :
        MalformedAt(s, ls, k, end)
        => res = IoErr("InvalidData",
                       MalformedPrefix \o Text(s, ls[k]) \o Apostrophe,
                       ls[k].to)

\* C13: when a line of the header block at the call is text without ": "
\* and is not the blank line, receive_packet fails with
\* InvalidData("Malformed LSP header: '<line>'"), <line> being the line as
\* read (line end included), whatever well-formed headers come before it
\* and whatever follows it.
C13_MalformedLine ==
    last.call = "receive_packet"
    => MalformedLine(input, LinesFrom(input, last.start), inputEnd, last.res)

\* a line without the separator has been read after a valid Content-Length
\* header, with the blank line and a body behind it
C13_Witness ==
    /\ last.call = "receive_packet"
    /\ \E k \in 2..Len(LinesFrom(input, last.start)) :
          /\ MalformedAt(input, LinesFrom(input, last.start), k, inputEnd)
          /\ NamesLength(Text(input, LinesFrom(input, last.start)[k - 1]))
          /\ k + 2 <= Len(LinesFrom(input, last.start))
          /\ Text(input, LinesFrom(input, last.start)[k + 1]) = CRLF
    /\ ~last.res.ok
    /\ last.res.kind = "InvalidData"

\* line k of ls is a Content-Length header whose value is no decimal
\* integer or does not fit usize, and the lines before it are well-formed
\* header lines
InvalidLengthAt(s, ls, k, end) ==
    /\ k \in 1..Len(ls)
    /\ GoodLines(s, ls, k - 1)
    /\ from_utf8_ok(Text(s, ls[k]))
    /\ NamesLength(Text(s, ls[k]))
    /\ ~ValidLength(ValueOf(Text(s, ls[k])))
    /\ Delivered(s, ls[k], end)

\* the error of a Content-Length value that is no usize
IsInvalidNumber(res) ==
    /\ ~res.ok
    /\ res.kind = "InvalidData"
    /\ Len(res.msg) > Len(InvalidNumberPrefix)
    /\ SubSeq(res.msg, 1, Len(InvalidNumberPrefix)) = InvalidNumberPrefix

InvalidLength(s, ls, end, res) ==
    \A k \in 1..Len(ls) :
        InvalidLengthAt(s, ls, k, end)
        => IsInvalidNumber(res) /\ res.pos = ls[k].to

\* C14: when the value of a Content-Length header of the block at the call
\* is not a decimal integer (empty, signed with -, letters, digits followed
\* by letters) or is above usize::MAX = 2^64 - 1, receive_packet fails with
\* InvalidData("Value of Content-Length header is invalid number: ..") and
\* the cursor stays at the end of that line: no length is made up from the
\* value and no body byte is read.
C14_InvalidLength ==
    last.call = "receive_packet"
    => InvalidLength(input, LinesFrom(input, last.start), inputEnd, last.res)

\* the value 2^64, the first one above usize::MAX, has been refused with a
\* body behind the header block
C14_Witness ==
    /\ last.call = "receive_packet"
    /\ \E k \in 1..Len(LinesFrom(input, last.start)) :
          /\ InvalidLengthAt(input, LinesFrom(input, last.start), k, inputEnd)
          /\ StripZeros(ValueOf(Text(input, LinesFrom(input, last.start)[k])))
             = B("18446744073709551616")
          /\ LinesFrom(input, last.start)[k].to + 2 < Len(input)
    /\ IsInvalidNumber(last.res)
    /\ last.res.pos < Len(input)

\* j is a parsed JSON object without the member method, whose id, when it
\* has one, is an Id (null, a string or an unsigned integer)
IsNoMethod(j) ==
    /\ j.ok
    /\ j.val.t = "Obj"
    /\ ~Has(j.val, KeyMethod)
    /\ Has(j.val, KeyId) => DecodeId(Get(j.val, KeyId)).ok

\* the id written in object v, null when it has none
PacketId(v) == IF Has(v, KeyId) THEN Get(v, KeyId) ELSE Null

\* m is the InvalidRequest failure with the id of object v
IsInvalidRequestFor(m, v) ==
    /\ m.kind = "Failure"
    /\ m.error = invalid_request
    /\ IdValue(m.id) = PacketId(v)

\* packet i of n received in a call, when it is an object without method,
\* gives the failure with its id and is not the last packet of the call
NoMethodSkipped(j, text, i, n) ==
    IsNoMethod(j) => IsInvalidRequestFor(parse_message(text), j.val) /\ i < n

LengthLines(s, ls, n) == {i \in 1..n : NamesLength(Text(s, ls[i]))}

\* the last of them, 0 when there is none
RECURSIVE LastLength(_, _, _)
LastLength(s, ls, n) ==
    IF n = 0 THEN 0
    ELSE IF NamesLength(Text(s, ls[n])) THEN n
    ELSE LastLength(s, ls, n - 1)

\* the number written by the digits ds
RECURSIVE NumberOf(_)
NumberOf(ds) ==
    IF ds = <<>> THEN 0
    ELSE NumberOf(SubSeq(ds, 1, Len(ds) - 1)) * 10 + (ds[Len(ds)] - 48)

\* the number a valid Content-Length value v stands for; values of more
\* than three digits are above the length of every stream
Small(v) == Len(StripZeros(Unsigned(v))) <= 3
LengthOf(v) == NumberOf(StripZeros(Unsigned(v)))

\* the n bytes after the first p bytes of s are there, are UTF-8 and are
\* what res returns, with the cursor after them
Framed(s, p, n, res) ==
    (p + n <= Len(s) /\ from_utf8_ok(SubSeq(s, p + 1, p + n)))
    => res = IoOk(SubSeq(s, p + 1, p + n), p + n)

\* the block closed by line k is framed by the value of its Content-Length
\* header on line i
FramedBy(s, ls, k, i, res) ==
    Small(ValueOf(Text(s, ls[i])))
    => Framed(s, ls[k].to, LengthOf(ValueOf(Text(s, ls[i]))), res)

LastWins(s, ls, res) ==
    \A k \in 1..Len(ls) :
        (BlankAt(s, ls, k) /\ Cardinality(LengthLines(s, ls, k - 1)) >= 2)
        => FramedBy(s, ls, k, LastLength(s, ls, k - 1), res)

\* C16: when the header block at the call holds two or more Content-Length
\* headers (in any case, next to each other or apart), receive_packet reads
\* as many body bytes as the value of the last of them says.
C16_LastWins ==
    last.call = "receive_packet"
    => LastWins(input, LinesFrom(input, last.start), last.res)

\* a block with two Content-Length headers of different values has been
\* framed by the second
C16_Witness ==
    /\ last.call = "receive_packet"
    /\ last.res.ok
    /\ \E k \in 3..Len(LinesFrom(input, last.start)) :
          /\ BlankAt(input, LinesFrom(input, last.start), k)
          /\ \E i, j \in LengthLines(input, LinesFrom(input, last.start), k - 1) :
                /\ i < j
                /\ j = LastLength(input, LinesFrom(input, last.start), k - 1)
                /\ LengthOf(ValueOf(Text(input, LinesFrom(input, last.start)[i])))
                   # Len(last.res.text)
                /\ LengthOf(ValueOf(Text(input, LinesFrom(input, last.start)[j])))
                   = Len(last.res.text)

\* some line of ls[1..n] has a key that is not written Content-Length: the
\* key in another mix of cases, or another key
OtherSpelling(s, ls, n) ==
    \E i \in 1..n : KeyOf(Text(s, ls[i])) # ContentLengthKey

AnyCaseAnyOthers(s, ls, res) ==
    \A k \in 1..Len(ls) :
        (/\ BlankAt(s, ls, k)
         /\ LengthLines(s, ls, k - 1) # {}
         /\ OtherSpelling(s, ls, k - 1))
        => FramedBy(s, ls, k, LastLength(s, ls, k - 1), res)

\* content-length with each set of its letters in upper case
CaseMixes ==
    {[i \in 1..Len(content_length) |->
        IF i \in up THEN content_length[i] - 32 ELSE content_length[i]]
     : up \in SUBSET {i \in 1..Len(content_length) : content_length[i] \in 97..122}}

\* every one of them is taken as the Content-Length key
AnyCaseMatches ==
    \A key \in CaseMixes : IsContentLength([key |-> key, value |-> <<>>])

\* C17: every mix of upper and lower case of content-length is taken as the
\* Content-Length key, and a header block whose Content-Length key is written in any mix of
\* upper and lower case, and that holds headers with any other keys (keys
\* that contain or extend Content-Length among them), is framed by the
\* value of its (last) Content-Length header as if the key were written
\* Content-Length and the other headers were not there: the body is
\* returned and no error is raised.
C17_AnyCaseAnyOthers ==
    /\ AnyCaseMatches
    /\ last.call = "receive_packet"
       => AnyCaseAnyOthers(input, LinesFrom(input, last.start), last.res)

\* a packet with the key in mixed case and a header with another key has
\* been framed
C17_Witness ==
    /\ last.call = "receive_packet"
    /\ last.res.ok
    /\ last.res.text # <<>>
    /\ \E k \in 3..Len(LinesFrom(input, last.start)) :
          /\ BlankAt(input, LinesFrom(input, last.start), k)
          /\ \E i, j \in 1..(k - 1) :
                /\ NamesLength(Text(input, LinesFrom(input, last.start)[i]))
                /\ KeyOf(Text(input, LinesFrom(input, last.start)[i]))
                   \notin {ContentLengthKey, content_length}
                /\ ~NamesLength(Text(input, LinesFrom(input, last.start)[j]))

\* the valid Content-Length value v stands for more than n
Above(v, n) == ~Small(v) \/ LengthOf(v) > n

\* the block closed by line k announces more body bytes than the stream
\* holds after it
ShortAt(s, ls, k) ==
    /\ BlankAt(s, ls, k)
    /\ LengthLines(s, ls, k - 1) # {}
    /\ Above(ValueOf(Text(s, ls[LastLength(s, ls, k - 1)])), Len(s) - ls[k].to)

ShortBody(s, ls, res) ==
    \A k \in 1..Len(ls) :
        ShortAt(s, ls, k) => ~res.ok /\ res.kind = "UnexpectedEof"

\* C18: when the header block at the call announces Content-Length N and
\* the stream gives end of file after fewer than N body bytes,
\* receive_packet fails with UnexpectedEof and returns no body.
C18_ShortBodyIsEof ==
    (last.call = "receive_packet" /\ inputEnd = "Eof")
    => ShortBody(input, LinesFrom(input, last.start), last.res)

\* the same for the values of N that a Vec can hold, N <= isize::MAX
C18_ShortBodyIsEofWhenAllocated ==
    (/\ last.call = "receive_packet"
     /\ inputEnd = "Eof"
     /\ ~(~last.res.ok /\ last.res.kind = "Abort"))
    => ShortBody(input, LinesFrom(input, last.start), last.res)

\* the first line of ls, from line i on, that is not a well-formed header
\* line; Len(ls) + 1 when there is none
RECURSIVE FirstOther(_, _, _)
FirstOther(s, ls, i) ==
    IF i > Len(ls) THEN i
    ELSE IF GoodLine(Text(s, ls[i])) THEN FirstOther(s, ls, i + 1)
    ELSE i

NoPacket == [ok |-> FALSE]

\* the n bytes of s after its first p bytes, as the body of a packet
CutBody(s, p, n) ==
    IF p + n <= Len(s) /\ from_utf8_ok(SubSeq(s, p + 1, p + n))
    THEN [ok |-> TRUE, from |-> p, to |-> p + n]
    ELSE NoPacket

\* the body that the Content-Length value v announces after p
Cut(s, p, v) == IF Small(v) THEN CutBody(s, p, LengthOf(v)) ELSE NoPacket

\* the packet whose header block is closed by line k: its body has the
\* length that the last Content-Length header of the block gives
Closed(s, ls, k) ==
    Cut(s, ls[k].to, ValueOf(Text(s, ls[LastLength(s, ls, k - 1)])))

\* the packet whose header block ends before line k, the first line that
\* is not a well-formed header line: that line is the blank line, and a
\* Content-Length header is among the lines before it
Opened(s, ls, k) ==
    IF /\ k <= Len(ls)
       /\ Text(s, ls[k]) = CRLF
       /\ LastLength(s, ls, k - 1) # 0
    THEN Closed(s, ls, k)
    ELSE NoPacket

\* the well-formed packet that the lines ls of s begin with: its body is
\* the bytes from + 1 to to
PacketAt(s, ls) == Opened(s, ls, FirstOther(s, ls, 1))

\* s after its first p bytes cut into well-formed packets, up to the first
\* place where no well-formed packet begins
RECURSIVE Split(_, _)
After(pk, s) == IF pk.ok THEN <<pk>> \o Split(s, pk.to) ELSE <<pk>>
Split(s, p) == IF p >= Len(s) THEN <<>> ELSE After(PacketAt(s, LinesFrom(s, p)), s)

\* s is a concatenation of well-formed packets, sp
IsPackets(sp) == \A i \in 1..Len(sp) : sp[i].ok

\* call i of the calls made on s, which is the packets sp: the first
\* Len(sp) calls begin where the packet begins and return its body, the
\* calls after them find the end of the stream
InOrder(s, sp, end, log) ==
    \A i \in 1..Len(log) :
        IF i <= Len(sp)
        THEN /\ log[i].start = IF i = 1 THEN 0 ELSE sp[i - 1].to
             /\ log[i].res = IoOk(SubSeq(s, sp[i].from + 1, sp[i].to), sp[i].to)
        ELSE end = "Eof" => log[i].res = IoErr("UnexpectedEof", <<>>, Len(s))

Ordered(s, sp, end, log) == IsPackets(sp) => InOrder(s, sp, end, log)

\* C19: on a stream that is a concatenation of k well-formed packets, the
\* first k receive_packet calls return the k bodies in stream order, each
\* call beginning right after the body of the one before, and every later
\* call fails with UnexpectedEof when the stream gives end of file.
C19_BodiesInOrder == Ordered(input, Split(input, 0), inputEnd, recvLog)

\* two packets with different bodies have been returned and the third call
\* has found the end of the stream
C19_Witness ==
    /\ inputEnd = "Eof"
    /\ IsPackets(Split(input, 0))
    /\ Len(Split(input, 0)) = 2
    /\ Len(recvLog) = 3
    /\ recvLog[1].res.ok
    /\ recvLog[2].res.ok
    /\ recvLog[1].res.text # recvLog[2].res.text
    /\ recvLog[1].res.text # <<>>
    /\ ~recvLog[3].res.ok

\* the header block that begins with the lines ls fails at its line k: a
\* line without the separator or an invalid Content-Length value
HeaderFailureAt(s, ls, k, end) ==
    MalformedAt(s, ls, k, end) \/ InvalidLengthAt(s, ls, k, end)

\* call i of log, which began where the lines ls begin, failed with the
\* cursor at the end of the offending line k, and the call after it, if
\* any, began there
StopsAt(s, ls, k, end, log, i) ==
    HeaderFailureAt(s, ls, k, end)
    => /\ ~log[i].res.ok
       /\ log[i].res.pos = ls[k].to
       /\ i < Len(log) => log[i + 1].start = ls[k].to

\* the offending line is the first line that is not a well-formed header
\* line
StopsAtLine(s, ls, end, log, i) == StopsAt(s, ls, FirstOther(s, ls, 1), end, log, i)

\* C20: a receive_packet call that fails on a header line (no separator, or
\* an invalid Content-Length value) has consumed the stream up to the end of
\* that line and no further: the header lines, blank line and body that
\* follow it stay in the stream, and the next call on the stream begins
\* right after the offending line.
C20_StopsAtLine ==
    \A i \in 1..Len(recvLog) :
        StopsAtLine(input, LinesFrom(input, recvLog[i].start), inputEnd,
                    recvLog, i)

\* the first call failed on the first line of a packet, and the second call
\* took the Content-Length header, blank line and body left of that packet
\* for a packet
C20_Witness ==
    /\ Len(recvLog) >= 2
    /\ recvLog[1].start = 0
    /\ HeaderFailureAt(input, LinesFrom(input, 0), 1, inputEnd)
    /\ ~recvLog[1].res.ok
    /\ recvLog[2].start = LinesFrom(input, 0)[1].to
    /\ recvLog[2].start < Len(input)
    /\ recvLog[2].res.ok

====
